---- MODULE Spec2Model ----
(***************************************************************************)
(* Reservation backend: the Supabase-backed FastAPI application (main.py), *)
(* the flat-file store (data_store.py), the SQLite store (database.py) and *)
(* the Chatbase bridge with its chat memory (chatbase_bridge.py).          *)
(*                                                                         *)
(* The stores are alternative persistence layers of the same service: one  *)
(* deployment runs one of them.  `variant` says which component a          *)
(* behaviour exercises; the actions of the other components are disabled.  *)
(***************************************************************************)
EXTENDS Integers, Sequences, FiniteSets, TLC

VARIABLES
    variant,    \* which component this behaviour runs
    serial,     \* operations run one at a time
    \* ---- main.py ----
    table,      \* rows of the Supabase table "reservations"
    nextId,     \* next identifier the table assigns
    clients,    \* main.py `clients`: list of open WebSocket handles
    wsState,    \* per WebSocket: "new", "open", "dropped", "closed"
    hpc,        \* per request handler: "idle", "notify", "done"
    hop,        \* the route the handler runs
    hidx,       \* notify(): position of the list iterator of `for ws in clients`
    hres,       \* the handler's HTTP response
    hsent,      \* the WebSockets notify() called send_text on, in order
    hpresent,   \* the WebSockets in `clients` during the whole notify() so far
    \* ---- data_store.py ----
    file,       \* reservations.json: [state, data]
    wpc,        \* per caller: "idle", "loaded", "opened"
    wop,        \* "save" or "update"
    wreq,       \* the call's arguments
    wbase,      \* what load_reservations() returned to the call
    wdata,      \* the call's local list `data`
    wres,       \* the call's return value
    wraced,     \* the callers that had loaded and not yet written when this one loaded
    lastWriter, \* the caller whose json.dump reached the file last
    \* ---- database.py ----
    dbReady,    \* init_db() has created the table
    db,         \* rows of the SQLite table, in insertion order
    dres,       \* outcome of the last database.py call
    \* ---- chatbase_bridge.py ----
    hasCreds,   \* CHATBASE_AGENT_ID and CHATBASE_API_KEY are set
    memfile,    \* chat_memory.json: [exists, data]
    staticCopy, \* static/chat_memory.json
    cpc,        \* per request: "idle", "awaiting", "done"
    cmsg,       \* body.message
    cmem,       \* the request's local list `memory`
    cctx,       \* the context the request put in the vendor prompt
    cres,       \* the request's response
    calls,      \* operations started so far
    arrivals    \* every message a request saved, in the order of the saves

mainVars == <<table, nextId, clients, wsState, hpc, hop, hidx, hres, hsent, hpresent>>
fileVars == <<file, wpc, wop, wreq, wbase, wdata, wres, wraced, lastWriter>>
dbVars == <<dbReady, db, dres>>
chatVars == <<hasCreds, memfile, staticCopy, cpc, cmsg, cmem, cctx, cres, arrivals>>
vars == <<variant, serial, calls, mainVars, fileVars, dbVars, chatVars>>

\* What the actions of one component leave alone.
MainOnly == UNCHANGED <<variant, serial, fileVars, dbVars, chatVars>>
FileOnly == UNCHANGED <<variant, serial, mainVars, dbVars, chatVars>>
DbOnly == UNCHANGED <<variant, serial, mainVars, fileVars, chatVars>>
ChatOnly == UNCHANGED <<variant, serial, mainVars, fileVars, dbVars>>

(***************************************************************************)
(* Bounds of the model.                                                    *)
(***************************************************************************)
MaxRecords == 2
MaxWs == 2
MaxOps == 3

Handlers == {"h1", "h2"}
Writers == {"w1", "w2"}
ChatReqs == {"c1", "c2"}

(***************************************************************************)
(* Python / JSON values.  A value carries its type: Str("4") and Num(4)    *)
(* are different values, None is Null.                                     *)
(***************************************************************************)
Str(s) == [t |-> "str", s |-> s, n |-> 0]
Num(n) == [t |-> "num", s |-> "", n |-> n]
Null == [t |-> "null", s |-> "", n |-> 0]

\* dict.get(k): the value, or None when the key is absent.
Get(d, k) == IF k \in DOMAIN d THEN d[k] ELSE Null

\* Python truthiness of a value, as `x or ""` uses it.
Truthy(v) ==
    CASE v.t = "str" -> v.s # ""
      [] v.t = "num" -> v.n # 0
      [] OTHER -> FALSE

\* `x or ""`
OrEmpty(v) == IF Truthy(v) THEN v ELSE Str("")

\* int(x): the text of an integer literal converts, other text raises
\* ValueError, None raises TypeError.
IntOk(v) ==
    CASE v.t = "num" -> TRUE
      [] v.t = "str" -> v.s \in {"2", "4"}
      [] OTHER -> FALSE

IntOf(v) ==
    CASE v.t = "num" -> v.n
      [] v.s = "2" -> 2
      [] OTHER -> 4

LastN(s, n) == IF Len(s) <= n THEN s ELSE SubSeq(s, Len(s) - n + 1, Len(s))

Range(s) == {s[i] : i \in 1..Len(s)}

Count(s, x) == Cardinality({i \in 1..Len(s) : s[i] = x})

\* The processes in the middle of an operation.
Busy ==
    {p \in Handlers : hpc[p] = "notify"}
      \cup {p \in Writers : wpc[p] # "idle"}
      \cup {p \in ChatReqs : cpc[p] = "awaiting"}

\* A new operation starts; the model runs MaxOps of them, and one at a time
\* when `serial`.
Started ==
    /\ calls < MaxOps
    /\ serial => Busy = {}
    /\ calls' = calls + 1

(***************************************************************************)
(* main.py                                                                 *)
(***************************************************************************)
ReservationKeys ==
    {"customer_name", "customer_email", "contact_phone", "party_size",
     "datetime", "table_number", "notes"}

\* Replies of the chat-completion vendor.  `raw` is the text as received,
\* `fence` says it is wrapped in ``` fences, `json` what json.loads makes of
\* the text between the fences: an object (`obj`), a number, or nothing.
FullObj ==
    [customer_name |-> Str("Ana"), customer_email |-> Str("ana@x.co"),
     contact_phone |-> Str("555"), party_size |-> Num(4),
     datetime |-> Str("2025-01-01T20:00"), table_number |-> Str("7"),
     notes |-> Str("window")]

\* json.loads gave no dict: the handler never reads fields of it.
NoObj == [none |-> Null]

Replies ==
    { [raw |-> "full", fence |-> FALSE, json |-> "object", obj |-> FullObj],
      [raw |-> "fenced", fence |-> TRUE, json |-> "object",
       obj |-> [FullObj EXCEPT !.customer_name = Str("Bo"), !.party_size = Str("2")]],
      [raw |-> "sparse", fence |-> FALSE, json |-> "object",
       obj |-> [customer_name |-> Str("Cy"), datetime |-> Str("2025-01-02T19:00"),
                party_size |-> Str("2"), customer_email |-> Null, notes |-> Str("")]],
      [raw |-> "badsize", fence |-> FALSE, json |-> "object",
       obj |-> [FullObj EXCEPT !.party_size = Str("four")]],
      [raw |-> "noname", fence |-> FALSE, json |-> "object",
       obj |-> [party_size |-> Num(2), datetime |-> Str("2025-01-03T18:00")]],
      [raw |-> "ask", fence |-> FALSE, json |-> "object",
       obj |-> [ask |-> Str("For how many people?")]],
      [raw |-> "number", fence |-> FALSE, json |-> "number", obj |-> NoObj],
      [raw |-> "Hola, claro que si", fence |-> FALSE, json |-> "none", obj |-> NoObj] }

Apology == "Sorry, can you repeat that?"

Xml(kind, a, b) == [code |-> 200, kind |-> kind, a |-> a, b |-> b]
ServerError == [code |-> 500, kind |-> "error", a |-> Null, b |-> Null]
JsonMessage(m) == [code |-> 200, kind |-> "json", a |-> Str(m), b |-> Null]

\* msg.strip(); if msg.startswith("```"): strip the fences; json.loads(msg).
\* The result is what the text holds; a text that is no JSON raises.
ParsesAsJson(reply) == reply.json # "none"

\* The row whatsapp_webhook inserts.
WebhookRow(data, id) ==
    [reservation_id |-> id,
     customer_name |-> Get(data, "customer_name"),
     customer_email |-> OrEmpty(Get(data, "customer_email")),
     contact_phone |-> OrEmpty(Get(data, "contact_phone")),
     datetime |-> Get(data, "datetime"),
     party_size |-> Num(IntOf(Get(data, "party_size"))),
     table_number |-> OrEmpty(Get(data, "table_number")),
     notes |-> OrEmpty(Get(data, "notes")),
     status |-> Str("confirmed")]

\* supabase.table("reservations").insert(row).execute()
InsertRow(t, row) == t \cup {row}

\* UpdateReservation bodies: every optional field is None unless given.
NoUpdate ==
    [datetime |-> Null, party_size |-> Null, table_number |-> Null,
     notes |-> Null, status |-> Null]

UpdateBodies ==
    { [NoUpdate EXCEPT !.status = Str("seated")],
      [NoUpdate EXCEPT !.party_size = Num(6), !.notes = Str("late")] }

UpdateKeys == {"datetime", "party_size", "table_number", "notes", "status"}

\* update_data: the fields of the body that are not None.
UpdateData(body) == {k \in UpdateKeys : body[k].t # "null"}

\* supabase ... .update(update_data).eq("reservation_id", id).execute()
UpdateRows(t, id, body) ==
    { IF r.reservation_id = id
        THEN [k \in DOMAIN r |-> IF k \in UpdateData(body) THEN body[k] ELSE r[k]]
        ELSE r : r \in t }

\* The update without its filter: every row is cancelled.
CancelRowsUnfiltered(t, id) == {[r EXCEPT !.status = Str("cancelled")] : r \in t}

\* supabase ... .update({"status": "cancelled"}).eq("reservation_id", id).execute()
CancelRows(t, id) ==
    { IF r.reservation_id = id THEN [r EXCEPT !.status = Str("cancelled")] ELSE r
      : r \in t }

\* supabase ... .delete().neq("reservation_id", 0).execute()
ResetRows(t) == {r \in t : ~(r.reservation_id # 0)}

RequestIds == 1..(MaxRecords + 1)

Ready(p) == variant = "supabase" /\ hpc[p] \in {"idle", "done"} /\ Started /\ MainOnly

\* notify(): `for ws in clients` fetches clients[hidx] and advances the
\* iterator, then awaits send_text; the handler is suspended there.  With
\* no client the loop ends at once and the handler returns.
BeginNotify(p, op, res) ==
    /\ hop' = [hop EXCEPT ![p] = op]
    /\ hres' = [hres EXCEPT ![p] = res]
    /\ IF Len(clients) > 0
         THEN /\ hpc' = [hpc EXCEPT ![p] = "notify"]
              /\ hpresent' = [hpresent EXCEPT ![p] = Range(clients)]
              /\ hidx' = [hidx EXCEPT ![p] = 1]
              /\ hsent' = [hsent EXCEPT ![p] = <<clients[1]>>]
         ELSE /\ hpc' = [hpc EXCEPT ![p] = "done"]
              /\ hidx' = [hidx EXCEPT ![p] = 0]
              /\ hsent' = [hsent EXCEPT ![p] = << >>]
              /\ hpresent' = [hpresent EXCEPT ![p] = {}]

\* A handler that returns without calling notify().
Return(p, op, res) ==
    /\ hop' = [hop EXCEPT ![p] = op]
    /\ hres' = [hres EXCEPT ![p] = res]
    /\ hpc' = [hpc EXCEPT ![p] = "done"]
    /\ hidx' = [hidx EXCEPT ![p] = 0]
    /\ hsent' = [hsent EXCEPT ![p] = << >>]
    /\ hpresent' = [hpresent EXCEPT ![p] = {}]

\* POST /whatsapp, up to its first suspension.
WhatsappWebhook(p, reply) ==
    /\ Ready(p)
    /\ UNCHANGED <<clients, wsState>>
    /\ IF ~ParsesAsJson(reply)
         THEN /\ Return(p, "whatsapp", Xml("message", Str(Apology), Null))
              /\ UNCHANGED <<table, nextId>>
       ELSE IF reply.json # "object"
         THEN /\ Return(p, "whatsapp", ServerError)
              /\ UNCHANGED <<table, nextId>>
       ELSE IF "ask" \in DOMAIN reply.obj
         THEN /\ Return(p, "whatsapp", Xml("message", reply.obj["ask"], Null))
              /\ UNCHANGED <<table, nextId>>
       ELSE IF ~IntOk(Get(reply.obj, "party_size"))
         THEN /\ Return(p, "whatsapp", ServerError)
              /\ UNCHANGED <<table, nextId>>
       ELSE /\ nextId <= MaxRecords
            /\ table' = InsertRow(table, WebhookRow(reply.obj, nextId))
            /\ nextId' = nextId + 1
            /\ BeginNotify(p, "whatsapp",
                   IF {"customer_name", "datetime"} \subseteq DOMAIN reply.obj
                     THEN Xml("created", reply.obj["customer_name"], reply.obj["datetime"])
                     ELSE ServerError)

\* POST /updateReservation, up to its first suspension.
UpdateReservation(p, id, body) ==
    /\ Ready(p)
    /\ table' = UpdateRows(table, id, body)
    /\ BeginNotify(p, "update", JsonMessage("updated"))
    /\ UNCHANGED <<nextId, clients, wsState>>

\* POST /cancelReservation, up to its first suspension.
CancelReservation(p, id) ==
    /\ Ready(p)
    /\ table' = CancelRows(table, id)
    /\ BeginNotify(p, "cancel", JsonMessage("cancelled"))
    /\ UNCHANGED <<nextId, clients, wsState>>

\* POST /resetReservations
ResetReservations(p) ==
    /\ Ready(p)
    /\ table' = ResetRows(table)
    /\ Return(p, "reset", JsonMessage("All reservations cleared"))
    /\ UNCHANGED <<nextId, clients, wsState>>

\* notify() resumes after a send: the iterator yields clients[hidx + 1] when
\* the list is that long; otherwise the loop ends and the handler returns
\* its response (the locals of notify are gone).
NotifyResume(p) ==
    /\ variant = "supabase"
    /\ MainOnly
    /\ hpc[p] = "notify"
    /\ IF hidx[p] < Len(clients)
         THEN /\ hsent' = [hsent EXCEPT ![p] = Append(@, clients[hidx[p] + 1])]
              /\ hidx' = [hidx EXCEPT ![p] = @ + 1]
              /\ UNCHANGED <<hpc, hpresent>>
         ELSE /\ hpc' = [hpc EXCEPT ![p] = "done"]
              /\ hidx' = [hidx EXCEPT ![p] = 0]
              /\ hsent' = [hsent EXCEPT ![p] = << >>]
              /\ hpresent' = [hpresent EXCEPT ![p] = {}]
    /\ UNCHANGED <<calls, table, nextId, clients, wsState, hop, hres>>

WsIds == 1..MaxWs

\* websocket_endpoint: accept() and clients.append(websocket).
WsConnect(w) ==
    /\ variant = "supabase"
    /\ MainOnly
    /\ wsState[w] = "new"
    /\ Started
    /\ wsState' = [wsState EXCEPT ![w] = "open"]
    /\ clients' = Append(clients, w)
    /\ UNCHANGED <<table, nextId, hpc, hop, hidx, hres, hsent, hpresent>>

\* The peer goes away: send_text to it raises from now on (notify swallows
\* it), and the pending receive_text of websocket_endpoint will raise.
WsDrop(w) ==
    /\ variant = "supabase"
    /\ MainOnly
    /\ wsState[w] = "open"
    /\ wsState' = [wsState EXCEPT ![w] = "dropped"]
    /\ UNCHANGED <<calls, table, nextId, clients, hpc, hop, hidx, hres, hsent, hpresent>>

\* list.remove(x): the list without its first x.
ListRemove(s, x) ==
    LET i == CHOOSE j \in 1..Len(s) : s[j] = x /\ \A k \in 1..(j - 1) : s[k] # x
    IN SubSeq(s, 1, i - 1) \o SubSeq(s, i + 1, Len(s))

\* websocket_endpoint: receive_text raised, clients.remove(websocket).
WsRemove(w) ==
    /\ variant = "supabase"
    /\ MainOnly
    /\ wsState[w] = "dropped"
    /\ wsState' = [wsState EXCEPT ![w] = "closed"]
    /\ clients' = ListRemove(clients, w)
    /\ hpresent' = [p \in Handlers |->
                      IF hpc[p] = "notify" THEN hpresent[p] \ {w} ELSE hpresent[p]]
    /\ UNCHANGED <<calls, table, nextId, hpc, hop, hidx, hres, hsent>>

MainNext ==
    \/ \E p \in Handlers, reply \in Replies : WhatsappWebhook(p, reply)
    \/ \E p \in Handlers, id \in RequestIds, body \in UpdateBodies :
          UpdateReservation(p, id, body)
    \/ \E p \in Handlers, id \in RequestIds : CancelReservation(p, id)
    \/ \E p \in Handlers : ResetReservations(p)
    \/ \E p \in Handlers : NotifyResume(p)
    \/ \E w \in WsIds : WsConnect(w) \/ WsDrop(w) \/ WsRemove(w)

MainInit ==
    /\ table = {}
    /\ nextId = 1
    /\ clients = << >>
    /\ wsState = [w \in WsIds |-> "new"]
    /\ hpc = [p \in Handlers |-> "idle"]
    /\ hop = [p \in Handlers |-> "none"]
    /\ hidx = [p \in Handlers |-> 0]
    /\ hres = [p \in Handlers |-> ServerError]
    /\ hsent = [p \in Handlers |-> << >>]
    /\ hpresent = [p \in Handlers |-> {}]

(***************************************************************************)
(* data_store.py                                                           *)
(***************************************************************************)
\* Reservations passed to save_reservation and add_reservation.
SampleA ==
    [reservation_id |-> "r1", business |-> "Cafe", datetime |-> "d1",
     party_size |-> 2, customer_name |-> "Ana", customer_email |-> "a@x.co",
     status |-> "confirmed"]
SampleB == [SampleA EXCEPT !.reservation_id = "r2", !.customer_name = "Bo",
                           !.status = "pending"]
SampleC == [SampleA EXCEPT !.customer_name = "Cy", !.datetime = "d2"]
SampleD ==
    [reservation_id |-> "r3", datetime |-> "d1", party_size |-> 4,
     customer_name |-> "Di", customer_email |-> "d@x.co", status |-> "confirmed"]

Samples == {SampleA, SampleB, SampleC, SampleD}
FileSamples == {SampleA, SampleB, SampleC}
StoreIds == {"r1", "r2", "r9"}
NewStatuses == {"cancelled", "updated"}

NoReq == [id |-> "", status |-> ""]

\* load_reservations(): the list in the file; [] when the file is missing or
\* json.load raises on it.
LoadReservations(f) == IF f.state = "ok" THEN f.data ELSE << >>

\* The loop of update_reservation_status: the index of the first record
\* whose reservation_id is the one given, 0 when there is none.
FirstMatch(data, id) ==
    IF \E i \in 1..Len(data) : data[i].reservation_id = id
      THEN CHOOSE i \in 1..Len(data) :
             /\ data[i].reservation_id = id
             /\ \A j \in 1..(i - 1) : data[j].reservation_id # id
      ELSE 0

\* r["status"] = new_status on the first match, then break.
SetStatus(data, id, st) ==
    [i \in 1..Len(data) |->
        IF i = FirstMatch(data, id) THEN [data[i] EXCEPT !.status = st] ELSE data[i]]

\* The reservation put in front of the list instead of behind it.
PrependReservation(data, res) == <<res>> \o data

\* data.append(reservation)
AppendReservation(data, res) == Append(data, res)

WReady(p) == variant = "file" /\ wpc[p] = "idle" /\ Started /\ FileOnly

\* A new call of p: the callers that have loaded and not yet opened the file
\* for writing are the ones p races with.
Raced(p) ==
    [q \in Writers |->
        IF q = p THEN {r \in Writers \ {p} : wpc[r] = "loaded"}
        ELSE wraced[q] \ {p}]

\* save_reservation: data = load_reservations(); data.append(reservation)
SaveLoad(p, res) ==
    /\ WReady(p)
    /\ wpc' = [wpc EXCEPT ![p] = "loaded"]
    /\ wop' = [wop EXCEPT ![p] = "save"]
    /\ wreq' = [wreq EXCEPT ![p] = res]
    /\ wbase' = [wbase EXCEPT ![p] = LoadReservations(file)]
    /\ wdata' = [wdata EXCEPT ![p] = AppendReservation(LoadReservations(file), res)]
    /\ wres' = [wres EXCEPT ![p] = "pending"]
    /\ wraced' = Raced(p)
    /\ UNCHANGED <<file, lastWriter>>

\* update_reservation_status: load, the loop, and `return updated` when
\* nothing matched (the file is then not written).
UpdateLoad(p, id, st) ==
    /\ WReady(p)
    /\ wop' = [wop EXCEPT ![p] = "update"]
    /\ wreq' = [wreq EXCEPT ![p] = [id |-> id, status |-> st]]
    /\ wraced' = Raced(p)
    /\ IF FirstMatch(LoadReservations(file), id) # 0
         THEN /\ wpc' = [wpc EXCEPT ![p] = "loaded"]
              /\ wres' = [wres EXCEPT ![p] = "pending"]
              /\ wbase' = [wbase EXCEPT ![p] = LoadReservations(file)]
              /\ wdata' = [wdata EXCEPT ![p] = SetStatus(LoadReservations(file), id, st)]
         ELSE /\ wpc' = [wpc EXCEPT ![p] = "idle"]
              /\ wres' = [wres EXCEPT ![p] = "False"]
              /\ wbase' = [wbase EXCEPT ![p] = << >>]
              /\ wdata' = [wdata EXCEPT ![p] = << >>]
    /\ UNCHANGED <<file, lastWriter>>

\* open(DATA_FILE, "w"): the file is truncated.
OpenForWrite(p) ==
    /\ variant = "file"
    /\ FileOnly
    /\ wpc[p] = "loaded"
    /\ wpc' = [wpc EXCEPT ![p] = "opened"]
    /\ file' = [state |-> "empty", data |-> << >>]
    /\ UNCHANGED <<calls, wop, wreq, wbase, wdata, wres, wraced, lastWriter>>

\* What the file holds after p's bytes are written from offset 0.  When
\* another handle wrote after p truncated, p's bytes replace the start of
\* that content: what is longer than p's bytes stays behind them and the
\* file is no JSON; record counts decide where they differ, and both
\* outcomes are possible where they do not.
Written(f, data) ==
    IF f.state = "empty" \/ (f.state = "ok" /\ Len(f.data) < Len(data))
         \/ (f.state = "ok" /\ f.data = data)
      THEN {[state |-> "ok", data |-> data]}
    ELSE IF f.state = "ok" /\ Len(f.data) > Len(data)
      THEN {[state |-> "corrupt", data |-> << >>]}
    ELSE {[state |-> "ok", data |-> data], [state |-> "corrupt", data |-> << >>]}

\* json.dump(data, f), the close of the file and the return: the call's
\* locals are gone.
Dump(p) ==
    /\ variant = "file"
    /\ FileOnly
    /\ wpc[p] = "opened"
    /\ \E f \in Written(file, wdata[p]) : file' = f
    /\ wpc' = [wpc EXCEPT ![p] = "idle"]
    /\ wres' = [wres EXCEPT ![p] = IF wop[p] = "update" THEN "True" ELSE "None"]
    /\ wbase' = [wbase EXCEPT ![p] = << >>]
    /\ wdata' = [wdata EXCEPT ![p] = << >>]
    /\ lastWriter' = p
    /\ UNCHANGED <<calls, wop, wreq, wraced>>

FileNext ==
    \/ \E p \in Writers, res \in FileSamples : SaveLoad(p, res)
    \/ \E p \in Writers, id \in StoreIds, st \in NewStatuses : UpdateLoad(p, id, st)
    \/ \E p \in Writers : OpenForWrite(p)
    \/ \E p \in Writers : Dump(p)

FileInit ==
    /\ file = [state |-> "missing", data |-> << >>]
    /\ wpc = [p \in Writers |-> "idle"]
    /\ wop = [p \in Writers |-> "none"]
    /\ wreq = [p \in Writers |-> NoReq]
    /\ wbase = [p \in Writers |-> << >>]
    /\ wdata = [p \in Writers |-> << >>]
    /\ wres = [p \in Writers |-> "None"]
    /\ wraced = [p \in Writers |-> {}]
    /\ lastWriter = "none"

(***************************************************************************)
(* database.py                                                             *)
(***************************************************************************)
DbColumns ==
    {"reservation_id", "business", "datetime", "party_size", "customer_name",
     "customer_email", "status"}

Times == {"t1", "t2"}

\* The row of the INSERT: the seven fields of `res` and created_at.
DbRow(res, now) ==
    [reservation_id |-> res.reservation_id, business |-> res.business,
     datetime |-> res.datetime, party_size |-> res.party_size,
     customer_name |-> res.customer_name, customer_email |-> res.customer_email,
     status |-> res.status, created_at |-> now]

\* What add_reservation raises, "None" when it returns.
AddOutcome(ready, rows, res) ==
    IF ~(DbColumns \subseteq DOMAIN res) THEN "KeyError"
    ELSE IF ~ready THEN "OperationalError"
    ELSE IF \E i \in 1..Len(rows) : rows[i].reservation_id = res.reservation_id
      THEN "IntegrityError"
    ELSE "None"

\* init_db(): CREATE TABLE IF NOT EXISTS
InitDb ==
    /\ variant = "sqlite"
    /\ DbOnly
    /\ Started
    /\ dbReady' = TRUE
    /\ dres' = [op |-> "init_db", ret |-> "None"]
    /\ UNCHANGED db

\* add_reservation(res) at time `now`
AddReservation(res, now) ==
    /\ variant = "sqlite"
    /\ DbOnly
    /\ Started
    /\ dres' = [op |-> "add_reservation", ret |-> AddOutcome(dbReady, db, res)]
    /\ db' = IF AddOutcome(dbReady, db, res) = "None"
               THEN Append(db, DbRow(res, now)) ELSE db
    /\ UNCHANGED dbReady

\* UPDATE reservations SET status=? WHERE reservation_id=?
UpdateWhere(rows, id, st) ==
    [i \in 1..Len(rows) |->
        IF rows[i].reservation_id = id THEN [rows[i] EXCEPT !.status = st] ELSE rows[i]]

RowCount(rows, id) == Cardinality({i \in 1..Len(rows) : rows[i].reservation_id = id})

\* update_status(reservation_id, new_status)
UpdateStatus(id, st) ==
    /\ variant = "sqlite"
    /\ DbOnly
    /\ Started
    /\ IF dbReady
         THEN /\ db' = UpdateWhere(db, id, st)
              /\ dres' = [op |-> "update_status",
                          ret |-> IF RowCount(db, id) > 0 THEN "True" ELSE "False"]
         ELSE /\ db' = db
              /\ dres' = [op |-> "update_status", ret |-> "OperationalError"]
    /\ UNCHANGED dbReady

DbNext ==
    \/ InitDb
    \/ \E res \in Samples, now \in Times : AddReservation(res, now)
    \/ \E id \in StoreIds, st \in NewStatuses : UpdateStatus(id, st)

DbInit ==
    /\ dbReady = FALSE
    /\ db = << >>
    /\ dres = [op |-> "none", ret |-> "None"]

(***************************************************************************)
(* chatbase_bridge.py                                                      *)
(***************************************************************************)
MemoryKeep == 15
ContextWindow == 10

UserMessages == {"hi", "book"}

\* Answers of the Chatbase API: HTTP status, whether the body is JSON, and
\* the fields "text" and "output_text" of the body (None when absent).
VendorResponses ==
    { [status |-> 200, json |-> TRUE, text |-> Str("ok"), output_text |-> Str("alt")],
      [status |-> 200, json |-> TRUE, text |-> Null, output_text |-> Str("sure")],
      [status |-> 200, json |-> TRUE, text |-> Str(""), output_text |-> Null],
      [status |-> 503, json |-> FALSE, text |-> Null, output_text |-> Null],
      [status |-> 200, json |-> FALSE, text |-> Null, output_text |-> Null] }

Fallback == "I'm not sure, could you clarify?"

\* response.get("text") or response.get("output_text") or "I'm not sure..."
ReplyOf(resp) ==
    IF Truthy(resp.text) THEN resp.text.s
    ELSE IF Truthy(resp.output_text) THEN resp.output_text.s
    ELSE Fallback

Msg(role, content) == [role |-> role, content |-> content]

\* load_memory()
LoadMemory(f) == IF f.exists THEN f.data ELSE << >>

\* The oldest messages kept instead of the latest: messages[:15].
SavedOldest(messages) ==
    [exists |-> TRUE,
     data |-> IF Len(messages) <= MemoryKeep THEN messages
              ELSE SubSeq(messages, 1, MemoryKeep)]

\* save_memory(messages): json.dump(messages[-15:])
SavedMemory(messages) == [exists |-> TRUE, data |-> LastN(messages, MemoryKeep)]

\* build_context(memory): the first-time text for an empty memory, else one
\* "Role: content" line for each of memory[-10:].
BuildContext(memory) ==
    IF memory = << >>
      THEN [first |-> TRUE, lines |-> << >>]
      ELSE [first |-> FALSE,
            lines |-> [i \in 1..Len(LastN(memory, ContextWindow)) |->
                         [role |-> IF LastN(memory, ContextWindow)[i].role = "user"
                                     THEN "User" ELSE "Assistant",
                          content |-> LastN(memory, ContextWindow)[i].content]]]

NoContext == [first |-> FALSE, lines |-> << >>]
ChatError(code) == [code |-> code, reply |-> "", length |-> 0]

\* A conversation of n messages that earlier requests have saved.
Earlier(n) ==
    [i \in 1..n |->
        CASE i % 4 = 1 -> Msg("user", "hi")
          [] i % 4 = 2 -> Msg("assistant", "ok")
          [] i % 4 = 3 -> Msg("user", "book")
          [] OTHER -> Msg("assistant", Fallback)]

\* The lengths of the conversations the model starts from: none, one that
\* the next requests take past the context window, one that they take past
\* what save_memory keeps.
EarlierLengths == {0, ContextWindow - 2, MemoryKeep - 1}

\* chatbase_bridge up to the await of the vendor call: the credential check,
\* load_memory() and the prompt call_chatbase builds.
ChatStart(p, msg) ==
    /\ variant = "chat"
    /\ ChatOnly
    /\ cpc[p] \in {"idle", "done"}
    /\ Started
    /\ IF hasCreds
         THEN /\ cpc' = [cpc EXCEPT ![p] = "awaiting"]
              /\ cmsg' = [cmsg EXCEPT ![p] = msg]
              /\ cmem' = [cmem EXCEPT ![p] = LoadMemory(memfile)]
              /\ cctx' = [cctx EXCEPT ![p] = BuildContext(LoadMemory(memfile))]
              /\ cres' = [cres EXCEPT ![p] = ChatError(0)]
         ELSE /\ cpc' = [cpc EXCEPT ![p] = "done"]
              /\ cres' = [cres EXCEPT ![p] = ChatError(500)]
              /\ cmsg' = [cmsg EXCEPT ![p] = ""]
              /\ UNCHANGED <<cmem, cctx>>
    /\ UNCHANGED <<hasCreds, memfile, staticCopy, arrivals>>

\* The memory a request holds after its two appends.
Appended(memory, msg, reply) ==
    memory \o <<Msg("user", msg), Msg("assistant", reply)>>

\* The vendor answers: call_chatbase raises on a status other than 200 and
\* on a body that is no JSON; otherwise the request appends the user message
\* and the reply to its list, saves it, copies the file and returns (its
\* locals are gone).
ChatRespond(p, resp) ==
    /\ variant = "chat"
    /\ ChatOnly
    /\ cpc[p] = "awaiting"
    /\ cpc' = [cpc EXCEPT ![p] = "done"]
    /\ cmsg' = [cmsg EXCEPT ![p] = ""]
    /\ cmem' = [cmem EXCEPT ![p] = << >>]
    /\ cctx' = [cctx EXCEPT ![p] = NoContext]
    /\ IF resp.status # 200 \/ ~resp.json
         THEN /\ cres' = [cres EXCEPT ![p] =
                            ChatError(IF resp.status # 200 THEN resp.status ELSE 500)]
              /\ UNCHANGED <<memfile, staticCopy, arrivals>>
         ELSE /\ memfile' = SavedMemory(Appended(cmem[p], cmsg[p], ReplyOf(resp)))
              /\ staticCopy' = memfile'
              /\ arrivals' = arrivals \o
                               <<Msg("user", cmsg[p]), Msg("assistant", ReplyOf(resp))>>
              /\ cres' = [cres EXCEPT ![p] =
                            [code |-> 200, reply |-> ReplyOf(resp),
                             length |-> Len(Appended(cmem[p], cmsg[p], ReplyOf(resp)))]]
    /\ UNCHANGED <<calls, hasCreds>>

ChatNext ==
    \/ \E p \in ChatReqs, msg \in UserMessages : ChatStart(p, msg)
    \/ \E p \in ChatReqs, resp \in VendorResponses : ChatRespond(p, resp)

ChatInit ==
    /\ hasCreds \in (IF variant = "chat" THEN BOOLEAN ELSE {TRUE})
    /\ \E n \in (IF variant = "chat" THEN EarlierLengths ELSE {0}) :
          /\ memfile = [exists |-> n > 0, data |-> Earlier(n)]
          /\ staticCopy = memfile
          /\ arrivals = Earlier(n)
    /\ cpc = [p \in ChatReqs |-> "idle"]
    /\ cmsg = [p \in ChatReqs |-> ""]
    /\ cmem = [p \in ChatReqs |-> << >>]
    /\ cctx = [p \in ChatReqs |-> NoContext]
    /\ cres = [p \in ChatReqs |-> ChatError(0)]

(***************************************************************************)
(* Specifications                                                          *)
(***************************************************************************)
Variants == {"supabase", "file", "sqlite", "chat"}

Next == MainNext \/ FileNext \/ DbNext \/ ChatNext

Setup ==
    /\ variant \in Variants
    /\ calls = 0
    /\ MainInit /\ FileInit /\ DbInit /\ ChatInit

\* Requests, callers and sockets run interleaved.
Init == serial = FALSE /\ Setup

Spec == Init /\ [][Next]_vars

\* One operation at a time: a call starts only when no other is under way.
SerialInit == serial = TRUE /\ Setup

SpecSerial == SerialInit /\ [][Next]_vars

(***************************************************************************)
(* Properties                                                              *)
(***************************************************************************)
TableIds(t) == {r.reservation_id : r \in t}

\* A reply that holds a complete reservation: a JSON object with the seven
\* fields of the prompt, the party size being an integer or its text.
CompleteReservation(reply) ==
    /\ reply.json = "object"
    /\ ReservationKeys \subseteq DOMAIN reply.obj
    /\ IntOk(reply.obj["party_size"])

\* Row r holds the fields of the reply as given (the party size as the
\* integer given or denoted), an identifier of its own and status confirmed.
HoldsGiven(r, obj, before) ==
    /\ \A k \in ReservationKeys \ {"party_size"} : r[k] = obj[k]
    /\ r.party_size = Num(IntOf(obj["party_size"]))
    /\ r.reservation_id \notin TableIds(before)
    /\ r.status = Str("confirmed")

\* C1: a booking adds exactly one record whose fields equal the given
\* fields, with an identifier and status "confirmed", and leaves every record
\* stored before unchanged.  A booking is POST /whatsapp with a complete
\* reservation reply, or a call of save_reservation (from what it loaded to
\* what it wrote) or of add_reservation (on the created table) with a
\* reservation that has every field and status "confirmed".
C1_BookingAddsOneRecord ==
    [][/\ \A p \in Handlers, reply \in Replies :
            WhatsappWebhook(p, reply) /\ CompleteReservation(reply)
              => \E r \in table' : /\ r \notin table
                                   /\ table' = table \cup {r}
                                   /\ HoldsGiven(r, reply.obj, table)
       /\ \A p \in Writers :
            Dump(p) /\ wop[p] = "save" /\ wreq[p].status = "confirmed"
              => file' = [state |-> "ok", data |-> Append(wbase[p], wreq[p])]
       /\ \A res \in Samples, now \in Times :
            /\ AddReservation(res, now)
            /\ dbReady
            /\ DbColumns \subseteq DOMAIN res
            /\ res.status = "confirmed"
            => /\ Len(db') = Len(db) + 1
               /\ SubSeq(db', 1, Len(db)) = db
               /\ \A k \in DbColumns : db'[Len(db')][k] = res[k]]_vars

C3_CancelUnknown ==
    [][/\ \A p \in Handlers, id \in RequestIds :
            CancelReservation(p, id) /\ id \notin TableIds(table)
              => table' = table /\ hres'[p] # JsonMessage("cancelled")
       /\ \A p \in Writers, id \in StoreIds :
            /\ UpdateLoad(p, id, "cancelled")
            /\ \A i \in 1..Len(LoadReservations(file)) :
                 LoadReservations(file)[i].reservation_id # id
            => file' = file /\ wpc'[p] = "idle" /\ wres'[p] = "False"
       /\ \A id \in StoreIds :
            /\ UpdateStatus(id, "cancelled")
            /\ dbReady
            /\ \A i \in 1..Len(db) : db[i].reservation_id # id
            => db' = db /\ dres'.ret = "False"]_vars

\* C4: when the vendor's reply is not parseable as JSON, POST /whatsapp
\* answers with the reply text as received, stores no reservation and starts
\* no notification.
C4_UnparseableReplySurfaced ==
    [][\A p \in Handlers, reply \in Replies :
          WhatsappWebhook(p, reply) /\ ~ParsesAsJson(reply)
            => /\ hres'[p] = Xml("message", Str(reply.raw), Null)
               /\ table' = table
               /\ hpc'[p] = "done"
               /\ hsent'[p] = << >>]_vars

\* C5: a stored reservation stays stored until resetReservations runs, and
\* resetReservations removes them all.  In the table every step but a reset
\* keeps every identifier and a reset leaves no row; the sqlite table keeps
\* its rows in place; and once no writer of the file is at work, the
\* reservation of every completed save_reservation is in the file.
C5_StoredUntilReset ==
    [][/\ \A p \in Handlers : ResetReservations(p) => table' = {}
       /\ (~ \E p \in Handlers : ResetReservations(p))
            => TableIds(table) \subseteq TableIds(table')
       /\ Len(db') >= Len(db)
       /\ \A i \in 1..Len(db) : db'[i].reservation_id = db[i].reservation_id
       /\ (\A p \in Writers : wpc'[p] = "idle")
            => \A p \in Writers :
                 wop'[p] = "save"
                   => /\ file'.state = "ok"
                      /\ \E i \in 1..Len(file'.data) :
                           /\ file'.data[i].reservation_id = wreq'[p].reservation_id
                           /\ file'.data[i].customer_name = wreq'[p].customer_name]_vars

\* C6: after any sequence of booking, update and cancel requests the status
\* of every row of the reservations table is "confirmed", "cancelled" or
\* "updated".
C6_StatusOneOfThree ==
    \A r \in table :
        r.status \in {Str("confirmed"), Str("cancelled"), Str("updated")}

\* C7: when two writers of the file have both loaded it before either wrote,
\* one has written and returned, and the other then truncates and writes,
\* the file holds what the later writer loaded with the later writer's own
\* change and nothing else: a reservation the earlier writer appended is not
\* among the records, a status the earlier writer set is the one from before.
C7_LaterWriteWins ==
    [][\A p, q \in Writers :
          /\ p # q
          /\ Dump(p)
          /\ wpc[q] = "idle" /\ lastWriter = q
          /\ q \in wraced[p] \/ p \in wraced[q]
          /\ file.state = "empty"
          => /\ file'.state = "ok"
             /\ wop[p] = "save" => file'.data = Append(wbase[p], wreq[p])
             /\ wop[p] = "update"
                  => /\ Len(file'.data) = Len(wbase[p])
                     /\ \A i \in 1..Len(wbase[p]) :
                          \/ file'.data[i] = wbase[p][i]
                          \/ /\ wbase[p][i].reservation_id = wreq[p].id
                             /\ file'.data[i] =
                                  [wbase[p][i] EXCEPT !.status = wreq[p].status]]_vars

\* Two save_reservation calls loaded the file before either wrote; both have
\* returned, and the file holds the reservation of the later writer and not
\* the one of the earlier writer.
C7_Witness ==
    /\ variant = "file"
    /\ \E p, q \in Writers :
          /\ p # q
          /\ wpc[p] = "idle" /\ wpc[q] = "idle"
          /\ wop[p] = "save" /\ wop[q] = "save"
          /\ q \in wraced[p] \/ p \in wraced[q]
          /\ lastWriter = p
          /\ file.state = "ok"
          /\ wreq[p] \in Range(file.data)
          /\ \A i \in 1..Len(file.data) :
               file.data[i].reservation_id # wreq[q].reservation_id

\* C8: after any sequence of chatbase_bridge calls the saved memory is the
\* latest messages in arrival order, at most 15 of them, ending with a user
\* message and the assistant reply to it; and the context of a request that
\* awaits the vendor is the first-time text when the memory is empty, and
\* otherwise one line for each of the last 10 saved messages (fewer when
\* fewer are saved), in their order.
C8_MemoryWindow ==
    variant = "chat" =>
      /\ Len(memfile.data) <= MemoryKeep
      /\ \A i \in 1..Len(memfile.data) :
           memfile.data[i] = arrivals[Len(arrivals) - Len(memfile.data) + i]
      /\ Len(arrivals) > MemoryKeep => Len(memfile.data) = MemoryKeep
      /\ Len(arrivals) <= MemoryKeep => Len(memfile.data) = Len(arrivals)
      /\ memfile.data # << >>
           => /\ Len(memfile.data) >= 2
              /\ memfile.data[Len(memfile.data) - 1].role = "user"
              /\ memfile.data[Len(memfile.data)].role = "assistant"
      /\ \A p \in ChatReqs :
           /\ cres[p].code = 200
                => /\ memfile.exists
                   /\ \E i \in 1..Len(arrivals) : arrivals[i].content = cres[p].reply
           /\ cpc[p] = "awaiting"
                => LET n == Len(memfile.data)
                       k == IF n <= ContextWindow THEN n ELSE ContextWindow
                   IN /\ cctx[p].first = (n = 0)
                      /\ Len(cctx[p].lines) = k
                      /\ \A i \in 1..k :
                           /\ cctx[p].lines[i].content = memfile.data[n - k + i].content
                           /\ cctx[p].lines[i].role =
                                (IF memfile.data[n - k + i].role = "user"
                                   THEN "User" ELSE "Assistant")

\* More than 15 messages have arrived, and a request awaits the vendor with a
\* context of 10 lines.
C8_Witness ==
    /\ variant = "chat"
    /\ Len(arrivals) > MemoryKeep
    /\ Len(memfile.data) = MemoryKeep
    /\ \E p \in ChatReqs : cpc[p] = "awaiting" /\ Len(cctx[p].lines) = ContextWindow

\* C9: when notify returns, each client that was in the clients list from
\* the start of the call to its end has been sent the refresh message
\* exactly once, whatever connects, fails or is removed in between.
C9_NotifyEachOnce ==
    [][\A p \in Handlers :
          NotifyResume(p) /\ hpc'[p] = "done"
            => \A ws \in hpresent[p] : Count(hsent[p], ws) = 1]_vars

\* C10: when the last of several overlapping chatbase_bridge requests
\* completes, and no more than 15 messages have arrived in all, the saved
\* memory holds the user message and the reply of every completed request;
\* and a request whose vendor call fails leaves the saved memory as it was.
C10_OverlappingAllRetained ==
    [][\A p \in ChatReqs, resp \in VendorResponses :
          ChatRespond(p, resp)
            => /\ (resp.status # 200 \/ ~resp.json) => memfile' = memfile
               /\ (/\ resp.status = 200 /\ resp.json
                   /\ \A q \in ChatReqs : cpc'[q] # "awaiting"
                   /\ Len(arrivals') <= MemoryKeep)
                    => \A m \in Range(arrivals') :
                         Count(memfile'.data, m) >= Count(arrivals', m)]_vars

====
